---- MODULE Spec2Model ----
(***************************************************************************)
(* A model of the reference implementations documented in the repository:  *)
(*   - the double-entry ledger (JournalEntryModel, FinancialReports),      *)
(*   - the inventory and sales models (ProductModel, SalesModel),          *)
(*   - the FastAPI item endpoints (verify_api_key, list_items, CRUD),      *)
(*   - the Electron preload bridge (validChannels, window.api),            *)
(*   - the SQL migration runner (runMigrations).                           *)
(* Money is counted in cents, so 0.01 is 1.                                *)
(***************************************************************************)
EXTENDS Integers, Sequences, FiniteSets, TLC

VARIABLES
    \* ---- ledger (SQLite tables accounts, journal_entries, journal_entry_lines)
    accounts,             \* account id -> [account_type, current_balance, is_active]
    journal_entries,      \* sequence of rows [id, entry_number, reference_type, reference_id, is_posted, created_year]
    journal_entry_lines,  \* sequence of rows [journal_entry_id, account_id, debit, credit]
    ledgerLast,           \* the last ledger call: [op, id, error, diff]
    clock,                \* [utc, local]: the year of datetime('now') and of new Date()
    \* ---- inventory and sales (tables products, inventory_transactions, sales, sale_items)
    products,                \* product id -> [current_stock, cost_price]
    inventory_transactions,  \* sequence of rows [product_id, transaction_type, quantity]
    sales,                   \* sequence of rows [id, invoice_number, status]
    sale_items,              \* sequence of rows [sale_id, product_id, quantity]
    invLast,                 \* the last inventory call: [op, id, error]
    \* ---- FastAPI item endpoints (table items, settings, the last response)
    items,                \* item id -> [name]
    nextId,               \* the next value of the items.id sequence
    authVariant,          \* which documented verify_api_key the router depends on
    apiLast,              \* the last response
    walk,                 \* a client following the cursor-based listing
    \* ---- Electron preload bridge (what ipcRenderer was asked to do)
    ipcInvoked,           \* sequence of channels passed to ipcRenderer.invoke
    ipcListeners,         \* set of [id, channel]: listeners added with ipcRenderer.on
    nextSubscription,     \* the id of the next subscription closure
    bridgeLast,           \* the last window.api call: [op, channel, threw, message]
    \* ---- migration runner (the migrations directory and the database)
    migrationsDir,        \* set of file names in the migrations directory
    migrations,           \* sequence of names: the rows of table migrations
    schemaEffects,        \* sequence of names: the files whose SQL is in effect
    migRun,               \* the last run: [runs, ran, failed]
    \* ---- accounts receivable (tables customers, invoices, payments)
    customers,            \* customer id -> [current_balance]
    invoices,             \* sequence of rows [id, invoice_number, customer_id, total_amount, amount_paid, status]
    payments,             \* sequence of rows [id, invoice_id, amount]
    arLast,               \* the last InvoiceModel call: [op, id, error, diff, amount]
    \* ---- POSTerminal component state
    cart,                 \* useState([]): sequence of cart items
    showPayment,          \* useState(false)
    lastSale,             \* useState(null): what setLastSale was given
    posAlert,             \* the parts of the text of the last handler's alert(), << >> when it showed none
    posLast,              \* the last POSTerminal handler: [op, barcode, found, created, printed]
    \* ---- auto-update flow
    updState,             \* the state of electron-updater's autoUpdater
    windowEvents,         \* set of [channel, status]: what webContents.send sent
    rendererStatus,       \* set of statuses delivered to the renderer's listeners
    \* ---- AccessibleModal and the document around it
    isOpen,               \* the modal's isOpen prop
    focusableCount,       \* the number of focusable elements among its children
    activeElement,        \* document.activeElement
    previousActiveElement, \* previousActiveElement.current
    modalLast             \* the last event on the modal: [key, shiftKey, defaultPrevented]

ledgerVars == <<accounts, journal_entries, journal_entry_lines, ledgerLast, clock>>

invVars == <<products, inventory_transactions, sales, sale_items, invLast>>

apiVars == <<items, nextId, authVariant, apiLast, walk>>

bridgeVars == <<ipcInvoked, ipcListeners, nextSubscription, bridgeLast>>

migVars == <<migrationsDir, migrations, schemaEffects, migRun>>

arVars == <<customers, invoices, payments, arLast>>

posVars == <<cart, showPayment, lastSale, posAlert, posLast>>

updVars == <<updState, windowEvents, rendererStatus>>

modalVars == <<isOpen, focusableCount, activeElement, previousActiveElement, modalLast>>

\* The state of the renderer's components and of the flows added to the ledger.
appVars == <<arVars, posVars, updVars, modalVars>>

vars == <<ledgerVars, invVars, apiVars, bridgeVars, migVars, appVars>>

----------------------------------------------------------------------------
(* Bounds of the model *)

MaxEntries == 1      \* journal entries stored in one run
MaxYear == 1         \* new years the clocks pass in one run
MaxInvoices == 1     \* invoices stored in one run
MaxPayments == 1     \* payments stored in one run
MaxTotal == 3        \* largest totalAmount of an invoice, in cents
MaxCartQuantity == 3   \* units in the cart of the POS terminal
MaxFocusable == 5      \* focusable elements among the children of the modal
MaxSales == 1        \* sales stored in one run
MaxAdjustments == 1  \* inventory_transactions rows written by direct updateStock calls
MaxItems == 2        \* items created through create_item in one run
MaxStored == 25      \* items stored when the paginated listing is read
MaxPage == 4         \* largest page number requested
MaxWalkItems == 4    \* size of the pool of ids the cursor walk's table is drawn from
MaxWalkLimit == 3    \* largest small limit a cursor walk is run with
MaxBridgeCalls == 2  \* calls forwarded to ipcRenderer.invoke in one run
MaxSubscriptions == 2  \* listeners subscribed through window.api.on in one run
MaxRuns == 3         \* runs of runMigrations

----------------------------------------------------------------------------
(* Generic helpers *)

Abs(x) == IF x < 0 THEN -x ELSE x

Min(a, b) == IF a < b THEN a ELSE b

Max(a, b) == IF a > b THEN a ELSE b

Range(s) == {s[i] : i \in DOMAIN s}

\* The transaction wrapper without its rollback.
TransactionNoRollback(before, after, ok) == after

\* better-sqlite3's db.transaction(fn)(): the writes of fn are kept when fn
\* returns and undone when fn throws.
Transaction(before, after, ok) == IF ok THEN after ELSE before

----------------------------------------------------------------------------
(* Ledger: chart of accounts *)

\* One account of each account_type of the seed chart, keyed by its code.
AccountType ==
    [ c \in {"1110", "2100", "3100", "4100", "6200"} |->
        CASE c = "1110" -> "asset"
          [] c = "2100" -> "liability"
          [] c = "3100" -> "equity"
          [] c = "4100" -> "income"
          [] c = "6200" -> "expense" ]

AccountIds == DOMAIN AccountType

\* An account id no accounts row has.
UnknownAccount == "9999"

ErrNone == "none"
ErrUnbalanced == "Debits and credits must be equal"
ErrConstraint == "SqliteError: constraint failed"
ErrUnique == "SqliteError: UNIQUE constraint failed: journal_entries.entry_number"
ErrNotFound == "Journal entry not found"
ErrAlreadyPosted == "Entry already posted"

\* Math.abs(totalDebit - totalCredit) > 0.01, in cents.
Tolerance == 1

InitLedger ==
    /\ accounts = [c \in AccountIds |->
            [account_type |-> AccountType[c], current_balance |-> 0, is_active |-> 1]]
    /\ journal_entries = << >>
    /\ journal_entry_lines = << >>
    /\ ledgerLast = [op |-> "none", id |-> 0, error |-> ErrNone, diff |-> 0]
    /\ clock = [utc |-> 0, local |-> 0]

----------------------------------------------------------------------------
(* Ledger: JournalEntryModel *)

\* data.lines of a create call: no line, one line or two lines, each debiting
\* or crediting one account by one cent; of two lines a debit line is listed
\* before a credit line.
InputLine ==
    { l \in [accountId : AccountIds \cup {UnknownAccount},
             debit : {0, 1}, credit : {0, 1}] :
        (l.debit = 0) # (l.credit = 0) }

InputLines ==
    {<< >>} \cup {<<a>> : a \in InputLine}
            \cup { p \in InputLine \X InputLine :
                        ~ (p[1].debit = 0 /\ p[2].credit = 0) }

RECURSIVE TotalDebit(_)
TotalDebit(lines) ==
    IF lines = << >> THEN 0 ELSE Head(lines).debit + TotalDebit(Tail(lines))

RECURSIVE TotalCredit(_)
TotalCredit(lines) ==
    IF lines = << >> THEN 0 ELSE Head(lines).credit + TotalCredit(Tail(lines))

\* A create that validates nothing.
IsBalancedUnchecked(lines) == TRUE

\* The negation of the guard of the throw in create.
IsBalanced(lines) ==
    ~ (Abs(TotalDebit(lines) - TotalCredit(lines)) > Tolerance)

\* JE-<year>-<count + 1>, the count taken over the rows created in that year.
\* The text form is one-to-one on the pair.
generateEntryNumber ==
    [ year |-> clock.local,
      seq  |-> Cardinality({ i \in DOMAIN journal_entries :
                              journal_entries[i].created_year = clock.local }) + 1 ]

\* uuidv4(): an id no stored entry has.
NewEntryId == Len(journal_entries) + 1

\* The index of the first line whose INSERT fails on the account foreign key,
\* Len(lines) + 1 when none does.
FirstBadLine(lines) ==
    IF \E i \in DOMAIN lines : lines[i].accountId \notin DOMAIN accounts
    THEN CHOOSE i \in DOMAIN lines :
            /\ lines[i].accountId \notin DOMAIN accounts
            /\ \A j \in 1..(i - 1) : lines[j].accountId \in DOMAIN accounts
    ELSE Len(lines) + 1

LineRows(entryId, lines) ==
    [ i \in DOMAIN lines |->
        [ journal_entry_id |-> entryId, account_id |-> lines[i].accountId,
          debit |-> lines[i].debit, credit |-> lines[i].credit ] ]

\* The body of create's transaction function for data.lines, data.referenceType
\* and data.referenceId: the tables as they stand when it returns or throws,
\* and the error it throws.
CreateRunFor(lines, referenceType, referenceId) ==
    IF ~ IsBalanced(lines)
    THEN [ je |-> journal_entries, jel |-> journal_entry_lines, error |-> ErrUnbalanced ]
    ELSE
        LET entryId == NewEntryId
            entryNumber == generateEntryNumber
        IN  IF \E e \in Range(journal_entries) : e.entry_number = entryNumber
            THEN [ je |-> journal_entries, jel |-> journal_entry_lines,
                   error |-> ErrUnique ]
            ELSE
                LET k == FirstBadLine(lines)
                    row == [ id |-> entryId, entry_number |-> entryNumber,
                             reference_type |-> referenceType,
                             reference_id |-> referenceId,
                             is_posted |-> 0, created_year |-> clock.utc ]
                IN  [ je |-> Append(journal_entries, row),
                      jel |-> journal_entry_lines
                                \o LineRows(entryId, SubSeq(lines, 1, k - 1)),
                      error |-> IF k <= Len(lines) THEN ErrConstraint ELSE ErrNone ]

\* The same for an entry entered by hand, which refers to nothing.
CreateRun(lines) == CreateRunFor(lines, "manual", 0)

\* JournalEntryModel.create(data)
JournalEntryCreate(lines) ==
    LET r == CreateRun(lines)
        ok == r.error = ErrNone
    IN  /\ ok => Len(journal_entries) < MaxEntries
        /\ journal_entries' = Transaction(journal_entries, r.je, ok)
        /\ journal_entry_lines' = Transaction(journal_entry_lines, r.jel, ok)
        /\ ledgerLast' = [ op |-> "create", id |-> NewEntryId, error |-> r.error,
                           diff |-> TotalDebit(lines) - TotalCredit(lines) ]
        /\ UNCHANGED <<accounts, clock>>

\* findById(id): the entry row with its lines joined to their accounts, or
\* Null when there is no such row.
NoEntry == [ id |-> 0 ]

findById(id) ==
    IF \E i \in DOMAIN journal_entries : journal_entries[i].id = id
    THEN LET i == CHOOSE j \in DOMAIN journal_entries : journal_entries[j].id = id
         IN  [ id |-> id,
               is_posted |-> journal_entries[i].is_posted,
               lines |-> SelectSeq(journal_entry_lines,
                                   LAMBDA l : /\ l.journal_entry_id = id
                                              /\ l.account_id \in DOMAIN accounts) ]
    ELSE NoEntry

\* A post that treats every account as an asset.
PostAmountDebitOnly(account_type, line) == line.debit - line.credit

\* The amount post adds to the balance of the line's account.
PostAmount(account_type, line) ==
    IF account_type \in {"asset", "expense"}
    THEN line.debit - line.credit
    ELSE line.credit - line.debit

\* The loop of post: UPDATE accounts SET current_balance = current_balance + ?
RECURSIVE UpdateBalances(_, _)
UpdateBalances(acc, lines) ==
    IF lines = << >> THEN acc
    ELSE LET line == Head(lines)
             a == line.account_id
             amount == PostAmount(acc[a].account_type, line)
         IN  UpdateBalances(
                [acc EXCEPT ![a].current_balance = acc[a].current_balance + amount],
                Tail(lines))

MarkPosted(id) ==
    [ i \in DOMAIN journal_entries |->
        IF journal_entries[i].id = id
        THEN [journal_entries[i] EXCEPT !.is_posted = 1]
        ELSE journal_entries[i] ]

\* The body of post's transaction function.
PostRun(id) ==
    LET entry == findById(id)
    IN  IF entry = NoEntry
        THEN [ acc |-> accounts, je |-> journal_entries, error |-> ErrNotFound ]
        ELSE IF entry.is_posted = 1
        THEN [ acc |-> accounts, je |-> journal_entries, error |-> ErrAlreadyPosted ]
        ELSE [ acc |-> UpdateBalances(accounts, entry.lines),
               je |-> MarkPosted(id), error |-> ErrNone ]

\* JournalEntryModel.post(id)
JournalEntryPost(id) ==
    \E r \in {PostRun(id)} :
    LET ok == r.error = ErrNone
    IN  /\ accounts' = Transaction(accounts, r.acc, ok)
        /\ journal_entries' = Transaction(journal_entries, r.je, ok)
        /\ ledgerLast' = [ op |-> "post", id |-> id, error |-> r.error, diff |-> 0 ]
        /\ UNCHANGED <<journal_entry_lines, clock>>

\* A new year begins, in UTC (datetime('now'), which fills created_at) or in
\* local time (new Date().getFullYear()); the two are at most a year apart.
NewYear(zone) ==
    /\ clock[zone] < MaxYear
    /\ \A other \in DOMAIN clock : clock[zone] <= clock[other]
    /\ clock' = [clock EXCEPT ![zone] = @ + 1]
    /\ UNCHANGED <<accounts, journal_entries, journal_entry_lines, ledgerLast>>

----------------------------------------------------------------------------
(* Ledger: FinancialReports *)

RECURSIVE SumOf(_, _)
\* rows.reduce((sum, r) => sum + r[field], 0) over a set of rows
SumOf(rows, field) ==
    IF rows = {} THEN 0
    ELSE LET r == CHOOSE x \in rows : TRUE
         IN  r[field] + SumOf(rows \ {r}, field)

getTrialBalance ==
    { [ code |-> c,
        account_type |-> accounts[c].account_type,
        debit_balance |-> IF accounts[c].account_type \in {"asset", "expense"}
                          THEN accounts[c].current_balance ELSE 0,
        credit_balance |-> IF accounts[c].account_type \in {"liability", "equity", "income"}
                           THEN accounts[c].current_balance ELSE 0 ] :
      c \in { a \in DOMAIN accounts :
                accounts[a].current_balance # 0 /\ accounts[a].is_active = 1 } }

getAccountsByType(type) ==
    { [ code |-> c, amount |-> accounts[c].current_balance ] :
      c \in { a \in DOMAIN accounts :
                /\ accounts[a].account_type = type
                /\ accounts[a].is_active = 1
                /\ accounts[a].current_balance # 0 } }

getBalanceSheet ==
    LET totalAssets == SumOf(getAccountsByType("asset"), "amount")
        totalLiabilities == SumOf(getAccountsByType("liability"), "amount")
        totalEquity == SumOf(getAccountsByType("equity"), "amount")
    IN  [ totalAssets |-> totalAssets,
          totalLiabilities |-> totalLiabilities,
          totalEquity |-> totalEquity,
          totalLiabilitiesAndEquity |-> totalLiabilities + totalEquity ]

----------------------------------------------------------------------------
(* Inventory: ProductModel *)

ProductIds == {"p1", "p2"}

\* A product id no products row has.
UnknownProduct == "p0"

\* The CHECK constraint on inventory_transactions.transaction_type.
TransactionTypes == {"purchase", "sale", "adjustment", "return", "transfer", "damage"}

ErrTypeError == "TypeError: Cannot read properties of undefined"
ErrSaleNotFound == "Sale not found or already void"

InitInventory ==
    /\ products = [p \in ProductIds |-> [current_stock |-> 0, cost_price |-> 0]]
    /\ inventory_transactions = << >>
    /\ sales = << >>
    /\ sale_items = << >>
    /\ invLast = [op |-> "none", id |-> 0, error |-> ErrNone]

\* The body of updateStock's transaction function on the tables db = [prod, inv]:
\* the UPDATE, which changes no row for an unknown id, then the INSERT, which
\* fails on the product foreign key or on the transaction_type CHECK.
UpdateStockRun(db, id, quantity, transactionType) ==
    LET prod == IF id \in DOMAIN db.prod
                THEN [db.prod EXCEPT ![id].current_stock = @ + quantity]
                ELSE db.prod
    IN  IF id \notin DOMAIN db.prod \/ transactionType \notin TransactionTypes
        THEN [ prod |-> prod, inv |-> db.inv, error |-> ErrConstraint ]
        ELSE [ prod |-> prod,
               inv |-> Append(db.inv, [ product_id |-> id,
                                        transaction_type |-> transactionType,
                                        quantity |-> quantity ]),
               error |-> ErrNone ]

\* ProductModel.updateStock(id, quantity, transactionType, userId, notes) as a
\* function of the tables: its own transaction (a savepoint inside a caller's).
updateStock(db, id, quantity, transactionType) ==
    LET r == UpdateStockRun(db, id, quantity, transactionType)
        ok == r.error = ErrNone
    IN  [ prod |-> Transaction(db.prod, r.prod, ok),
          inv |-> Transaction(db.inv, r.inv, ok),
          error |-> r.error ]

\* A direct call of ProductModel.updateStock (the 'inventory:adjust-stock' handler).
ProductUpdateStock(id, quantity, transactionType) ==
    \E r \in {updateStock([prod |-> products, inv |-> inventory_transactions],
                          id, quantity, transactionType)} :
        /\ r.error = ErrNone =>
              Cardinality({ i \in DOMAIN inventory_transactions :
                    inventory_transactions[i].transaction_type \notin {"sale", "return"} })
                < MaxAdjustments
        /\ products' = r.prod
        /\ inventory_transactions' = r.inv
        /\ invLast' = [op |-> "updateStock", id |-> 0, error |-> r.error]
        /\ UNCHANGED <<sales, sale_items>>

----------------------------------------------------------------------------
(* Sales: SalesModel *)

\* saleData.items of a create call: no item, one item or two items.
SaleItemInput == [productId : ProductIds \cup {UnknownProduct}, quantity : {1, 2}]

SaleItemsInput ==
    {<< >>} \cup {<<a>> : a \in SaleItemInput} \cup (SaleItemInput \X SaleItemInput)

\* INV-<today>-<count + 1>, the count taken over the sales of today; the sales
\* of one run fall on one day.
generateInvoiceNumber == Len(sales) + 1

\* uuidv4(): an id no stored sale has.
NewSaleId == Len(sales) + 1

\* The loop of create over saleData.items on db = [prod, inv, items, error]: it
\* stops at the first item that throws.
RECURSIVE InsertSaleItems(_, _, _)
InsertSaleItems(db, saleId, saleItems) ==
    IF saleItems = << >> \/ db.error # ErrNone THEN db
    ELSE LET item == Head(saleItems)
         IN  IF item.productId \notin DOMAIN db.prod
             THEN [db EXCEPT !.error = ErrTypeError]
             ELSE LET rows == Append(db.items, [ sale_id |-> saleId,
                                                  product_id |-> item.productId,
                                                  quantity |-> item.quantity ])
                      u == updateStock([prod |-> db.prod, inv |-> db.inv],
                                       item.productId, - item.quantity, "sale")
                  IN  InsertSaleItems(
                          [ prod |-> u.prod, inv |-> u.inv, items |-> rows,
                            error |-> u.error ],
                          saleId, Tail(saleItems))

\* The body of create's transaction function.
SaleCreateRun(saleItems) ==
    LET saleId == NewSaleId
        row == [ id |-> saleId, invoice_number |-> generateInvoiceNumber,
                 status |-> "completed" ]
        r == InsertSaleItems([ prod |-> products, inv |-> inventory_transactions,
                               items |-> sale_items, error |-> ErrNone ],
                             saleId, saleItems)
    IN  [ sales |-> Append(sales, row), prod |-> r.prod, inv |-> r.inv,
          items |-> r.items, error |-> r.error ]

\* SalesModel.create(saleData)
SalesCreate(saleItems) ==
    \E r \in {SaleCreateRun(saleItems)} :
    LET ok == r.error = ErrNone
    IN  /\ ok => Len(sales) < MaxSales
        /\ sales' = Transaction(sales, r.sales, ok)
        /\ sale_items' = Transaction(sale_items, r.items, ok)
        /\ products' = Transaction(products, r.prod, ok)
        /\ inventory_transactions' = Transaction(inventory_transactions, r.inv, ok)
        /\ invLast' = [op |-> "create", id |-> NewSaleId, error |-> r.error]

\* SalesModel.findById(id).items: the sale's items joined to their products.
SaleItemsOf(id) ==
    SelectSeq(sale_items, LAMBDA i : i.sale_id = id /\ i.product_id \in DOMAIN products)

\* A voidSale that gives nothing back.
RestoreNothing(db, saleItems) == db

\* The loop of voidSale over sale.items.
RECURSIVE RestoreItems(_, _)
RestoreItems(db, saleItems) ==
    IF saleItems = << >> \/ db.error # ErrNone THEN db
    ELSE RestoreItems(
            updateStock([prod |-> db.prod, inv |-> db.inv],
                        Head(saleItems).product_id, Head(saleItems).quantity, "return"),
            Tail(saleItems))

\* The body of voidSale's transaction function.
VoidSaleRun(id) ==
    IF ~ \E i \in DOMAIN sales : sales[i].id = id /\ sales[i].status # "void"
    THEN [ sales |-> sales, prod |-> products, inv |-> inventory_transactions,
           error |-> ErrSaleNotFound ]
    ELSE LET r == RestoreItems([ prod |-> products, inv |-> inventory_transactions,
                                 error |-> ErrNone ], SaleItemsOf(id))
         IN  [ sales |-> [ i \in DOMAIN sales |->
                            IF sales[i].id = id
                            THEN [sales[i] EXCEPT !.status = "void"] ELSE sales[i] ],
               prod |-> r.prod, inv |-> r.inv, error |-> r.error ]

\* SalesModel.voidSale(id, userId)
SalesVoid(id) ==
    \E r \in {VoidSaleRun(id)} :
    LET ok == r.error = ErrNone
    IN  /\ sales' = Transaction(sales, r.sales, ok)
        /\ products' = Transaction(products, r.prod, ok)
        /\ inventory_transactions' = Transaction(inventory_transactions, r.inv, ok)
        /\ invLast' = [op |-> "voidSale", id |-> id, error |-> r.error]
        /\ UNCHANGED sale_items

NextInventory ==
    \/ \E id \in ProductIds \cup {UnknownProduct}, q \in {-1, 1},
          t \in {"adjustment", "count"} :
            ProductUpdateStock(id, q, t) /\ UNCHANGED <<ledgerVars, apiVars, bridgeVars, migVars, appVars>>
    \/ \E saleItems \in SaleItemsInput : SalesCreate(saleItems) /\ UNCHANGED <<ledgerVars, apiVars, bridgeVars, migVars, appVars>>
    \/ \E id \in 1..(MaxSales + 1) : SalesVoid(id) /\ UNCHANGED <<ledgerVars, apiVars, bridgeVars, migVars, appVars>>

----------------------------------------------------------------------------
(* FastAPI: API key dependency *)

\* settings.api_keys_set
api_keys_set == {"key-a", "key-b"}

\* The X-API-Key header of a request: absent, or present with a key.
HeaderAbsent == [present |-> FALSE, key |-> ""]

HeaderWith(k) == [present |-> TRUE, key |-> k]

RequestHeaders == {HeaderAbsent} \cup {HeaderWith(k) : k \in {"key-a", "invalid-key"}}

\* APIKeyHeader(auto_error=False): the header's value, None when it is absent.
IsNone(h) == ~ h.present

\* The status a dependency answers with; StatusPass lets the endpoint run.
StatusPass == "pass"

\* verify_api_key of app/api/deps.py (Security Patterns).
verify_api_key(h) ==
    IF IsNone(h) THEN "401"
    ELSE IF h.key \notin api_keys_set THEN "403"
    ELSE StatusPass

\* verify_api_key of the quick reference.
verify_api_key_quick(h) ==
    IF (IsNone(h) \/ h.key = "") \/ h.key \notin api_keys_set THEN "403"
    ELSE StatusPass

\* The router's dependency: Depends(verify_api_key), in either documented form.
Authorize(h) ==
    IF authVariant = "deps" THEN verify_api_key(h) ELSE verify_api_key_quick(h)

----------------------------------------------------------------------------
(* FastAPI: item endpoints and CRUDBase *)

ItemNames == {"a", "b"}

\* ItemUpdate.name left unset (model_dump(exclude_unset=True) omits it).
Unset == "<unset>"

NoResponse ==
    [ op |-> "none", header |-> HeaderAbsent, id |-> 0, status |-> "none",
      detail |-> "", ran |-> FALSE, data |-> << >>, total |-> 0,
      page |-> 0, page_size |-> 0, pages |-> 0 ]

\* No walk in progress.
NoWalk ==
    [ limit |-> 1, cursor |-> [some |-> FALSE, text |-> << >>], seen |-> << >>,
      has_more |-> TRUE, status |-> "idle" ]

InitApi ==
    /\ items = << >>
    /\ nextId = 1
    /\ authVariant = "deps"
    /\ apiLast = NoResponse
    /\ walk = NoWalk

\* The response of a request the dependency rejected: the endpoint does not run.
Rejected(op, h, status) ==
    [ NoResponse EXCEPT !.op = op, !.header = h, !.status = status,
        !.detail = IF status = "401" THEN "API key is missing" ELSE "Invalid API key" ]

\* The rows of items in primary key order.
RECURSIVE SortedIds(_)
SortedIds(ids) ==
    IF ids = {} THEN << >>
    ELSE LET lo == CHOOSE x \in ids : \A y \in ids : x <= y
         IN  <<lo>> \o SortedIds(ids \ {lo})

\* CRUDBase.get(db, id): db.get(self.model, id), a row or None.
crud_get(id) == id \in DOMAIN items

\* CRUDBase.get_multi(db, skip, limit): select(...).offset(skip).limit(limit)
crud_get_multi(skip, limit) ==
    LET rows == SortedIds(DOMAIN items)
    IN  SubSeq(rows, skip + 1, Min(Len(rows), skip + limit))

\* item_crud.count(db): the number of rows.
crud_count == Cardinality(DOMAIN items)

\* A delete that removes nothing.
delete_nothing(id) == items

\* CRUDBase.delete(db, id)
crud_delete(id) == [ i \in DOMAIN items \ {id} |-> items[i] ]

\* CRUDBase.update(db, db_obj, obj_in): setattr for every field that was set.
crud_update(id, name) ==
    IF name = Unset THEN items ELSE [ items EXCEPT ![id] = [name |-> name] ]

\* CRUDBase.create(db, obj_in): the row gets the next id of the sequence.
crud_create(name) == [ i \in DOMAIN items \cup {nextId} |->
                         IF i = nextId THEN [name |-> name] ELSE items[i] ]

\* The upper bound of page_size: Query(20, ge=1, le=100).
PageSizeMax == 100

\* pages=(total + page_size - 1) // page_size with every page one short.
PagesRoundedDown(total, page_size) == total \div page_size

\* pages=(total + page_size - 1) // page_size
Pages(total, page_size) == (total + page_size - 1) \div page_size

\* GET "" list_items(page, page_size)
list_items(h, page, page_size) ==
    /\ apiLast' =
        IF Authorize(h) # StatusPass THEN Rejected("list", h, Authorize(h))
        ELSE IF page < 1 \/ page_size < 1 \/ page_size > PageSizeMax
        THEN [ NoResponse EXCEPT !.op = "list", !.header = h, !.status = "422",
                 !.page = page, !.page_size = page_size ]
        ELSE LET skip == (page - 1) * page_size
                 rows == crud_get_multi(skip, page_size)
                 total == crud_count
             IN  [ NoResponse EXCEPT !.op = "list", !.header = h, !.status = "200",
                     !.ran = TRUE, !.data = rows, !.total = total, !.page = page,
                     !.page_size = page_size, !.pages = Pages(total, page_size) ]
    /\ UNCHANGED <<items, nextId, authVariant, walk>>

\* GET "/{item_id}" get_item(item_id)
get_item(h, item_id) ==
    /\ apiLast' =
        IF Authorize(h) # StatusPass THEN Rejected("get", h, Authorize(h))
        ELSE IF ~ crud_get(item_id)
        THEN [ NoResponse EXCEPT !.op = "get", !.header = h, !.id = item_id,
                 !.status = "404", !.detail = "Item not found", !.ran = TRUE ]
        ELSE [ NoResponse EXCEPT !.op = "get", !.header = h, !.id = item_id,
                 !.status = "200", !.ran = TRUE ]
    /\ UNCHANGED <<items, nextId, authVariant, walk>>

\* POST "" create_item(item_in)
create_item(h, name) ==
    /\ Authorize(h) = StatusPass => nextId <= MaxItems
    /\ IF Authorize(h) # StatusPass
       THEN /\ apiLast' = Rejected("create", h, Authorize(h))
            /\ UNCHANGED <<items, nextId>>
       ELSE /\ items' = crud_create(name)
            /\ nextId' = nextId + 1
            /\ apiLast' = [ NoResponse EXCEPT !.op = "create", !.header = h,
                              !.id = nextId, !.status = "201", !.ran = TRUE ]
    /\ UNCHANGED <<authVariant, walk>>

\* PATCH "/{item_id}" update_item(item_id, item_in)
update_item(h, item_id, name) ==
    /\ IF Authorize(h) # StatusPass
       THEN /\ apiLast' = Rejected("update", h, Authorize(h))
            /\ UNCHANGED items
       ELSE IF ~ crud_get(item_id)
       THEN /\ apiLast' = [ NoResponse EXCEPT !.op = "update", !.header = h,
                              !.id = item_id, !.status = "404",
                              !.detail = "Item not found", !.ran = TRUE ]
            /\ UNCHANGED items
       ELSE /\ items' = crud_update(item_id, name)
            /\ apiLast' = [ NoResponse EXCEPT !.op = "update", !.header = h,
                              !.id = item_id, !.status = "200", !.ran = TRUE ]
    /\ UNCHANGED <<nextId, authVariant, walk>>

\* DELETE "/{item_id}" delete_item(item_id)
delete_item(h, item_id) ==
    /\ IF Authorize(h) # StatusPass
       THEN /\ apiLast' = Rejected("delete", h, Authorize(h))
            /\ UNCHANGED items
       ELSE IF ~ crud_get(item_id)
       THEN /\ apiLast' = [ NoResponse EXCEPT !.op = "delete", !.header = h,
                              !.id = item_id, !.status = "404",
                              !.detail = "Item not found", !.ran = TRUE ]
            /\ UNCHANGED items
       ELSE /\ items' = crud_delete(item_id)
            /\ apiLast' = [ NoResponse EXCEPT !.op = "delete", !.header = h,
                              !.id = item_id, !.status = "204", !.ran = TRUE ]
    /\ UNCHANGED <<nextId, authVariant, walk>>

----------------------------------------------------------------------------
(* FastAPI: cursor-based pagination *)

\* str(id).encode(): the decimal digits of id, as bytes.
RECURSIVE StrOfInt(_)
StrOfInt(n) ==
    IF n < 10 THEN <<48 + n>> ELSE StrOfInt(n \div 10) \o <<48 + (n % 10)>>

\* int(bytes.decode()): the number written by the decimal digits.
RECURSIVE IntOfStr(_)
IntOfStr(b) ==
    IF Len(b) = 0 THEN 0
    ELSE 10 * IntOfStr(SubSeq(b, 1, Len(b) - 1)) + (b[Len(b)] - 48)

\* base64.b64encode: three bytes become four symbols of the 64-letter alphabet
\* (written as their index 0..63); the last group is padded with '=' (64).
RECURSIVE b64encode(_)
b64encode(b) ==
    IF Len(b) = 0 THEN << >>
    ELSE IF Len(b) = 1
    THEN << b[1] \div 4, (b[1] % 4) * 16, 64, 64 >>
    ELSE IF Len(b) = 2
    THEN << b[1] \div 4, (b[1] % 4) * 16 + (b[2] \div 16), (b[2] % 16) * 4, 64 >>
    ELSE << b[1] \div 4, (b[1] % 4) * 16 + (b[2] \div 16),
            (b[2] % 16) * 4 + (b[3] \div 64), b[3] % 64 >>
           \o b64encode(SubSeq(b, 4, Len(b)))

\* base64.b64decode: four symbols become three bytes, fewer for a padded group.
RECURSIVE b64decode(_)
b64decode(t) ==
    IF Len(t) < 4 THEN << >>
    ELSE LET b1 == t[1] * 4 + (t[2] \div 16)
             b2 == (t[2] % 16) * 16 + (t[3] \div 4)
             b3 == (t[3] % 4) * 64 + t[4]
         IN  (IF t[3] = 64 THEN <<b1>>
              ELSE IF t[4] = 64 THEN <<b1, b2>>
              ELSE <<b1, b2, b3>>) \o b64decode(SubSeq(t, 5, Len(t)))

\* encode_cursor(id)
encode_cursor(id) == b64encode(StrOfInt(id))

\* decode_cursor(cursor)
decode_cursor(cursor) == IntOfStr(b64decode(cursor))

\* cursor: str | None
NoCursor == [some |-> FALSE, text |-> << >>]

SomeCursor(text) == [some |-> TRUE, text |-> text]

\* `if cursor:` - None and the empty string are false.
Truthy(cursor) == cursor.some /\ cursor.text # << >>

\* The upper bound of limit: Query(20, le=100). There is no lower bound.
LimitMax == 100

\* query.limit(n) for n >= 0: at most the first n rows.
SqlLimit(rows, n) == SubSeq(rows, 1, Min(Len(rows), n))

\* items[:n]: the first n elements, or all but the last -n when n is negative.
SliceTo(rows, n) ==
    IF n >= 0 THEN SubSeq(rows, 1, Min(Len(rows), n))
    ELSE SubSeq(rows, 1, Max(0, Len(rows) + n))

\* has_more = len(items) > limit
HasMore(fetched, limit) == Len(fetched) > limit

\* GET "/items" list_items(cursor, limit): the CursorPage it returns.
cursor_list_items(cursor, limit) ==
    LET ordered == SortedIds(DOMAIN items)
        query == IF Truthy(cursor)
                 THEN SelectSeq(ordered, LAMBDA id : id > decode_cursor(cursor.text))
                 ELSE ordered
        fetched == SqlLimit(query, limit + 1)
        has_more == HasMore(fetched, limit)
        data == SliceTo(fetched, limit)
    IN  [ data |-> data,
          next_cursor |-> IF Len(data) > 0 /\ has_more
                          THEN SomeCursor(encode_cursor(data[Len(data)]))
                          ELSE NoCursor,
          has_more |-> has_more ]

\* A client following the listing: it sends the cursor it was given last (none
\* at the start) while has_more is true, and collects the data of every page.
WalkRequest ==
    /\ walk.status \in {"idle", "walking"}
    /\ walk' =
        IF walk.limit > LimitMax
        THEN [ walk EXCEPT !.status = "rejected" ]
        ELSE LET r == cursor_list_items(walk.cursor, walk.limit)
             IN  [ walk EXCEPT !.seen = @ \o r.data,
                               !.cursor = r.next_cursor,
                               !.has_more = r.has_more,
                               !.status = IF r.has_more THEN "walking" ELSE "done" ]
    /\ UNCHANGED <<items, nextId, authVariant, apiLast>>

----------------------------------------------------------------------------
(* Electron preload bridge *)

\* const validChannels = { invoke: [...], on: [...] }
validChannels ==
    [ invoke |->
        { "pos:create-sale", "pos:get-sales", "pos:get-sale", "pos:void-sale",
          "pos:search-products", "pos:find-by-barcode", "pos:print-receipt",
          "pos:open-drawer", "pos:daily-summary",
          "inventory:get-products", "inventory:get-product",
          "inventory:create-product", "inventory:update-product",
          "inventory:delete-product", "inventory:adjust-stock",
          "inventory:get-low-stock", "inventory:get-categories",
          "inventory:create-category", "inventory:get-suppliers",
          "inventory:create-supplier", "inventory:update-supplier",
          "inventory:get-purchase-orders", "inventory:get-purchase-order",
          "inventory:create-purchase-order", "inventory:receive-purchase-order",
          "accounting:get-accounts", "accounting:create-account",
          "accounting:get-journal-entries", "accounting:create-journal-entry",
          "accounting:post-journal-entry", "accounting:get-invoices",
          "accounting:get-invoice", "accounting:create-invoice",
          "accounting:record-payment", "accounting:get-bills",
          "accounting:create-bill", "accounting:pay-bill",
          "reports:trial-balance", "reports:income-statement",
          "reports:balance-sheet", "reports:receivable-aging",
          "reports:payable-aging", "reports:sales-summary",
          "reports:stock-valuation", "reports:stock-movement",
          "customers:get-all", "customers:get", "customers:create",
          "customers:update", "customers:delete",
          "users:login", "users:logout", "users:get-current", "users:get-all",
          "users:create", "users:update",
          "settings:get", "settings:set", "settings:get-all",
          "system:backup", "system:restore", "system:get-stats",
          "system:check-updates", "system:install-update" },
      on |->
        { "menu:backup", "menu:restore", "menu:print",
          "update:available", "update:downloaded", "update:progress" } ]

\* The channels the renderer calls window.api with: channels of either list and
\* channels of neither (the updater's 'update:status' and
\* 'system:download-update' among them).
RendererChannels ==
    { "pos:create-sale", "system:install-update", "menu:backup", "update:progress",
      "update:status", "system:download-update", "fs:read-file" }

\* A whitelist check that lets every channel through.
includesAnything(list, channel) == TRUE

\* validChannels.<kind>.includes(channel)
includes(list, channel) == channel \in list

NoBridgeCall == [op |-> "none", channel |-> "", threw |-> FALSE, message |-> << >>]

\* new Error(`Invalid channel: ${channel}`)
InvalidChannel(channel) == <<"Invalid channel: ", channel>>

InitBridge ==
    /\ ipcInvoked = << >>
    /\ ipcListeners = {}
    /\ nextSubscription = 1
    /\ bridgeLast = NoBridgeCall

\* window.api.invoke(channel, ...args)
ApiInvoke(channel) ==
    /\ includes(validChannels.invoke, channel) => Len(ipcInvoked) < MaxBridgeCalls
    /\ IF includes(validChannels.invoke, channel)
       THEN /\ ipcInvoked' = Append(ipcInvoked, channel)
            /\ bridgeLast' = [ op |-> "invoke", channel |-> channel,
                               threw |-> FALSE, message |-> << >> ]
       ELSE /\ UNCHANGED ipcInvoked
            /\ bridgeLast' = [ op |-> "invoke", channel |-> channel,
                               threw |-> TRUE, message |-> InvalidChannel(channel) ]
    /\ UNCHANGED <<ipcListeners, nextSubscription>>

\* window.api.on(channel, callback): returns the closure that unsubscribes.
ApiOn(channel) ==
    /\ includes(validChannels.on, channel) => nextSubscription <= MaxSubscriptions
    /\ IF includes(validChannels.on, channel)
       THEN /\ ipcListeners' =
                  ipcListeners \cup {[id |-> nextSubscription, channel |-> channel]}
            /\ nextSubscription' = nextSubscription + 1
            /\ bridgeLast' = [ op |-> "on", channel |-> channel,
                               threw |-> FALSE, message |-> << >> ]
       ELSE /\ UNCHANGED <<ipcListeners, nextSubscription>>
            /\ bridgeLast' = [ op |-> "on", channel |-> channel,
                               threw |-> TRUE, message |-> InvalidChannel(channel) ]
    /\ UNCHANGED ipcInvoked

\* () => ipcRenderer.removeListener(channel, subscription), for a closure that
\* window.api.on returned.
Unsubscribe(id) ==
    /\ id < nextSubscription
    /\ ipcListeners' = {l \in ipcListeners : l.id # id}
    /\ bridgeLast' = [ op |-> "unsubscribe", channel |-> "",
                       threw |-> FALSE, message |-> << >> ]
    /\ UNCHANGED <<ipcInvoked, nextSubscription>>

NextBridge ==
    \/ \E channel \in RendererChannels :
          ApiInvoke(channel) /\ UNCHANGED <<ledgerVars, invVars, apiVars, migVars, appVars>>
    \/ \E channel \in RendererChannels :
          ApiOn(channel) /\ UNCHANGED <<ledgerVars, invVars, apiVars, migVars, appVars>>
    \/ \E id \in 1..MaxSubscriptions :
          Unsubscribe(id) /\ UNCHANGED <<ledgerVars, invVars, apiVars, migVars, appVars>>

----------------------------------------------------------------------------
(* Migration runner *)

\* The UTF-16 code unit of each character a file name of the model is made of.
CharCode ==
    [ c \in {".", "0", "1", "2", "l", "q", "s", "t", "x"} |->
        CASE c = "." -> 46  [] c = "0" -> 48  [] c = "1" -> 49  [] c = "2" -> 50
          [] c = "l" -> 108 [] c = "q" -> 113 [] c = "s" -> 115 [] c = "t" -> 116
          [] c = "x" -> 120 ]

\* The files that may be put in the migrations directory: 1.sql, 2.sql, 10.sql
\* and 2.txt, each as its sequence of characters.
FilePool ==
    { <<"1", ".", "s", "q", "l">>, <<"2", ".", "s", "q", "l">>,
      <<"1", "0", ".", "s", "q", "l">>, <<"2", ".", "t", "x", "t">> }

DotSql == <<".", "s", "q", "l">>

\* f.endsWith(suffix)
endsWith(f, suffix) ==
    /\ Len(f) >= Len(suffix)
    /\ SubSeq(f, Len(f) - Len(suffix) + 1, Len(f)) = suffix

\* a < b as Array.prototype.sort() orders strings: by code unit, a proper prefix
\* first.
RECURSIVE NameLess(_, _)
NameLess(a, b) ==
    IF Len(a) = 0 THEN Len(b) > 0
    ELSE IF Len(b) = 0 THEN FALSE
    ELSE IF CharCode[Head(a)] # CharCode[Head(b)] THEN CharCode[Head(a)] < CharCode[Head(b)]
    ELSE NameLess(Tail(a), Tail(b))

\* fs.readdirSync(migrationsDir).filter(f => f.endsWith('.sql')).sort()
RECURSIVE sort(_)
sort(names) ==
    IF names = {} THEN << >>
    ELSE LET lo == CHOOSE x \in names : \A y \in names \ {x} : NameLess(x, y)
         IN  <<lo>> \o sort(names \ {lo})

NoRun == [runs |-> 0, ran |-> << >>, failed |-> << >>]

InitMigrate ==
    /\ migrationsDir = {}
    /\ migrations = << >>
    /\ schemaEffects = << >>
    /\ migRun = NoRun

\* The loop `for (const file of files)`: a pending file's SQL and its row in
\* migrations are written in one db.transaction; a file whose SQL throws ends the
\* run, as nothing catches the error. st = [migrations, schemaEffects, ran, failed].
RECURSIVE RunPending(_, _, _, _)
RunPending(files, executed, fails, st) ==
    IF files = << >> THEN st
    ELSE LET file == Head(files)
         IN  IF file \in executed
             THEN RunPending(Tail(files), executed, fails, st)
             ELSE LET before == [ migrations |-> st.migrations,
                                  schemaEffects |-> st.schemaEffects ]
                      \* db.db.exec(sql)
                      execd == [ before EXCEPT !.schemaEffects = Append(@, file) ]
                      ok == file \notin fails
                      \* INSERT INTO migrations (name) VALUES (?)
                      after == IF ok THEN [ execd EXCEPT !.migrations = Append(@, file) ]
                               ELSE execd
                      db == Transaction(before, after, ok)
                      next == [ migrations |-> db.migrations,
                                schemaEffects |-> db.schemaEffects,
                                ran |-> Append(st.ran, file),
                                failed |-> IF ok THEN << >> ELSE <<file>> ]
                  IN  IF ok THEN RunPending(Tail(files), executed, fails, next)
                      ELSE next

\* runMigrations(); fails is the set of files whose SQL throws in this run.
runMigrations(fails) ==
    /\ migRun.runs < MaxRuns
    /\ LET executed == Range(migrations)
           files == sort({f \in migrationsDir : endsWith(f, DotSql)})
       IN  \E r \in { RunPending(files, executed, fails,
                         [ migrations |-> migrations, schemaEffects |-> schemaEffects,
                           ran |-> << >>, failed |-> << >> ]) } :
              /\ migrations' = r.migrations
              /\ schemaEffects' = r.schemaEffects
              /\ migRun' = [runs |-> migRun.runs + 1, ran |-> r.ran, failed |-> r.failed]
    /\ UNCHANGED migrationsDir

\* A developer adds a file to the migrations directory.
AddFile(f) ==
    /\ f \notin migrationsDir
    /\ migrationsDir' = migrationsDir \cup {f}
    /\ UNCHANGED <<migrations, schemaEffects, migRun>>

NextMigrate ==
    \/ \E fails \in SUBSET FilePool :
          runMigrations(fails) /\ UNCHANGED <<ledgerVars, invVars, apiVars, bridgeVars, appVars>>
    \/ \E f \in FilePool :
          AddFile(f) /\ UNCHANGED <<ledgerVars, invVars, apiVars, bridgeVars, appVars>>

----------------------------------------------------------------------------
(* Accounts receivable, POS terminal, updater and modal: initial state *)

CustomerIds == {"c1"}

\* No customer has a balance, no invoice and no payment is stored.
InitInvoices ==
    /\ customers = [c \in CustomerIds |-> [current_balance |-> 0]]
    /\ invoices = << >>
    /\ payments = << >>
    /\ arLast = [op |-> "none", id |-> 0, error |-> ErrNone, diff |-> 0, amount |-> 0]

\* useState(null)
Null == [isNull |-> TRUE]

\* POSTerminal's useState initial values.
InitPos ==
    /\ cart = << >>
    /\ showPayment = FALSE
    /\ lastSale = Null
    /\ posAlert = << >>
    /\ posLast = [ op |-> "none", barcode |-> "", found |-> FALSE, created |-> FALSE,
                   printed |-> "" ]

\* new AppUpdater(): nothing checked, nothing sent.
InitUpdater ==
    /\ updState = "idle"
    /\ windowEvents = {}
    /\ rendererStatus = {}

\* The elements of the document in document order: what the page has before
\* the modal, the modal's container <div tabIndex={-1}>, the focusable elements
\* among its children (index 1 to focusableCount), what the page has after it.
PageBefore == [where |-> "page", index |-> 0]

Container == [where |-> "modal", index |-> 0]

Child(i) == [where |-> "modal", index |-> i]

PageAfter == [where |-> "page", index |-> 1]

\* useRef<HTMLElement | null>(null)
NoElement == [where |-> "none", index |-> 0]

\* The modal is closed and the focus is on the page.
InitModal ==
    /\ isOpen = FALSE
    /\ focusableCount = 0
    /\ activeElement = PageBefore
    /\ previousActiveElement = NoElement
    /\ modalLast = [key |-> "none", shiftKey |-> FALSE, defaultPrevented |-> FALSE]

InitApp == InitInvoices /\ InitPos /\ InitUpdater /\ InitModal

----------------------------------------------------------------------------
(* Accounts receivable: InvoiceModel *)

\* The accounts an invoice and its payments are booked on, with their types in
\* the seed chart.
ReceivableAccountType ==
    [ c \in {"1110", "1120", "1200", "2300", "4100"} |->
        CASE c = "1110" -> "asset"
          [] c = "1120" -> "asset"
          [] c = "1200" -> "asset"
          [] c = "2300" -> "liability"
          [] c = "4100" -> "income" ]

\* Settings.getAccountMappings(): the account of each role, by its name in
\* the seed chart.
getAccountMappings ==
    [ cashOnHand |-> "1110", bankAccount |-> "1120", accountsReceivable |-> "1200",
      salesTaxPayable |-> "2300", salesRevenue |-> "4100" ]

\* A customer id no customers row has.
UnknownCustomer == "c0"

ErrInvoiceNotFound == "Invoice not found"
ErrExceeds == "Payment amount exceeds remaining balance"

\* data of InvoiceModel.create, amounts in cents.
InvoiceData ==
    [ customerId : CustomerIds \cup {UnknownCustomer},
      subtotal : {2}, taxAmount : {0, 1}, discountAmount : {0, 1},
      totalAmount : {1, MaxTotal} ]

\* paymentData.amount of recordPayment: below zero, zero, a part, and up to more
\* than any invoice's total.
PaymentAmounts == {-1, 0, 1, MaxTotal, MaxTotal + 1}

\* InvoiceModel.generateInvoiceNumber(): <prefix>-<year>-<count + 1>, the count
\* taken over the invoices created in that year.
InvoiceNumber ==
    [ year |-> clock.local,
      seq  |-> Cardinality({ i \in DOMAIN invoices :
                              invoices[i].created_year = clock.local }) + 1 ]

\* generatePaymentNumber(): RCP-<year>-<count + 1>
PaymentNumber ==
    [ year |-> clock.local,
      seq  |-> Cardinality({ i \in DOMAIN payments :
                              payments[i].created_year = clock.local }) + 1 ]

\* The lines of the journal entry of an invoice.
InvoiceLines(data) ==
    << [ accountId |-> getAccountMappings.accountsReceivable,
         debit |-> data.totalAmount, credit |-> 0 ],
       [ accountId |-> getAccountMappings.salesRevenue,
         debit |-> 0, credit |-> data.subtotal - data.discountAmount ] >>
    \o (IF data.taxAmount > 0
        THEN << [ accountId |-> getAccountMappings.salesTaxPayable,
                  debit |-> 0, credit |-> data.taxAmount ] >>
        ELSE << >>)

\* The body of create's transaction function: the tables as they stand when it
\* returns or throws, and the error it throws.
InvoiceCreateRun(data) ==
    LET invoiceId == Len(invoices) + 1
        invoiceNumber == InvoiceNumber
        unchanged == [ inv |-> invoices, cust |-> customers, je |-> journal_entries,
                       jel |-> journal_entry_lines, error |-> ErrConstraint ]
    IN  IF \/ data.customerId \notin DOMAIN customers
           \/ \E i \in Range(invoices) : i.invoice_number = invoiceNumber
        THEN unchanged
        ELSE LET row == [ id |-> invoiceId, invoice_number |-> invoiceNumber,
                          customer_id |-> data.customerId,
                          total_amount |-> data.totalAmount, amount_paid |-> 0,
                          status |-> "unpaid", created_year |-> clock.utc ]
                 cust == [ customers EXCEPT ![data.customerId].current_balance =
                                              @ + data.totalAmount ]
                 r == CreateRunFor(InvoiceLines(data), "invoice", invoiceId)
                 ok == r.error = ErrNone
             IN  [ inv |-> Append(invoices, row), cust |-> cust,
                   je |-> Transaction(journal_entries, r.je, ok),
                   jel |-> Transaction(journal_entry_lines, r.jel, ok),
                   error |-> r.error ]

\* InvoiceModel.create(data)
InvoiceCreate(data) ==
    \E r \in {InvoiceCreateRun(data)} :
    LET ok == r.error = ErrNone
    IN  /\ ok => Len(invoices) < MaxInvoices
        /\ invoices' = Transaction(invoices, r.inv, ok)
        /\ customers' = Transaction(customers, r.cust, ok)
        /\ journal_entries' = Transaction(journal_entries, r.je, ok)
        /\ journal_entry_lines' = Transaction(journal_entry_lines, r.jel, ok)
        /\ arLast' = [ op |-> "create", id |-> Len(invoices) + 1, error |-> r.error,
                       diff |-> data.totalAmount
                                  - (data.subtotal - data.discountAmount + data.taxAmount),
                       amount |-> data.totalAmount ]
        /\ UNCHANGED <<payments, accounts, ledgerLast, clock>>

\* The lines of the journal entry of a payment.
PaymentLines(amount, paymentMethod) ==
    << [ accountId |-> IF paymentMethod = "cash" THEN getAccountMappings.cashOnHand
                       ELSE getAccountMappings.bankAccount,
         debit |-> amount, credit |-> 0 ],
       [ accountId |-> getAccountMappings.accountsReceivable,
         debit |-> 0, credit |-> amount ] >>

\* newStatus = newAmountPaid >= invoice.total_amount ? 'paid' : 'partial'
NewStatus(newAmountPaid, total_amount) ==
    IF newAmountPaid >= total_amount THEN "paid" ELSE "partial"

\* The body of recordPayment's transaction function.
RecordPaymentRun(invoiceId, amount, paymentMethod) ==
    LET unchanged == [ inv |-> invoices, cust |-> customers, pay |-> payments,
                       je |-> journal_entries, jel |-> journal_entry_lines ]
    IN  IF ~ \E i \in DOMAIN invoices :
                invoices[i].id = invoiceId /\ invoices[i].customer_id \in DOMAIN customers
        THEN unchanged @@ [error |-> ErrInvoiceNotFound]
        ELSE
          LET k == CHOOSE i \in DOMAIN invoices : invoices[i].id = invoiceId
              invoice == invoices[k]
              remaining == invoice.total_amount - invoice.amount_paid
          IN  IF amount > remaining
              THEN unchanged @@ [error |-> ErrExceeds]
              ELSE IF \E q \in Range(payments) : q.payment_number = PaymentNumber
              THEN unchanged @@ [error |-> ErrConstraint]
              ELSE
                LET newAmountPaid == invoice.amount_paid + amount
                    paymentId == Len(payments) + 1
                    r == CreateRunFor(PaymentLines(amount, paymentMethod),
                                      "payment", paymentId)
                    ok == r.error = ErrNone
                IN  [ inv |-> [ invoices EXCEPT
                                  ![k].amount_paid = newAmountPaid,
                                  ![k].status = NewStatus(newAmountPaid, invoice.total_amount) ],
                      cust |-> [ customers EXCEPT
                                  ![invoice.customer_id].current_balance = @ - amount ],
                      pay |-> Append(payments,
                                [ id |-> paymentId, payment_number |-> PaymentNumber,
                                  invoice_id |-> invoiceId, amount |-> amount,
                                  created_year |-> clock.utc ]),
                      je |-> Transaction(journal_entries, r.je, ok),
                      jel |-> Transaction(journal_entry_lines, r.jel, ok),
                      error |-> r.error ]

\* InvoiceModel.recordPayment(invoiceId, paymentData)
InvoiceRecordPayment(invoiceId, amount, paymentMethod) ==
    \E r \in {RecordPaymentRun(invoiceId, amount, paymentMethod)} :
    LET ok == r.error = ErrNone
    IN  /\ ok => Len(payments) < MaxPayments
        /\ invoices' = Transaction(invoices, r.inv, ok)
        /\ customers' = Transaction(customers, r.cust, ok)
        /\ payments' = Transaction(payments, r.pay, ok)
        /\ journal_entries' = Transaction(journal_entries, r.je, ok)
        /\ journal_entry_lines' = Transaction(journal_entry_lines, r.jel, ok)
        /\ arLast' = [ op |-> "recordPayment", id |-> invoiceId, error |-> r.error,
                       diff |-> 0, amount |-> amount ]
        /\ UNCHANGED <<accounts, ledgerLast, clock>>

\* The ledger with the accounts invoices are booked on, and one customer.
InitReceivable ==
    /\ accounts = [c \in DOMAIN ReceivableAccountType |->
            [ account_type |-> ReceivableAccountType[c], current_balance |-> 0,
              is_active |-> 1 ]]
    /\ journal_entries = << >>
    /\ journal_entry_lines = << >>
    /\ ledgerLast = [op |-> "none", id |-> 0, error |-> ErrNone, diff |-> 0]
    /\ clock = [utc |-> 0, local |-> 0]
    /\ InitInventory /\ InitApi /\ InitBridge /\ InitMigrate /\ InitApp

NextReceivable ==
    \/ \E data \in InvoiceData :
          /\ InvoiceCreate(data)
          /\ UNCHANGED <<invVars, apiVars, bridgeVars, migVars, posVars, updVars, modalVars>>
    \/ \E invoiceId \in 1..(MaxInvoices + 1), amount \in PaymentAmounts,
          paymentMethod \in {"cash", "card"} :
          /\ InvoiceRecordPayment(invoiceId, amount, paymentMethod)
          /\ UNCHANGED <<invVars, apiVars, bridgeVars, migVars, posVars, updVars, modalVars>>

SpecReceivable == InitReceivable /\ [][NextReceivable]_vars

----------------------------------------------------------------------------
(* POS terminal: the 'pos:*' handlers and POSTerminal *)

\* products.barcode: the barcode of each stored product.
BarcodeProduct == [b1 |-> "p1", b2 |-> "p2"]

\* A barcode no products row has.
UnknownBarcode == "b0"

\* What .get() returns when no row matches.
undefined == [isUndefined |-> TRUE]

\* What reading a property an object does not have gives.
UndefinedProperty == "undefined"

\* obj[name] in JavaScript.
Get(obj, name) == IF name \in DOMAIN obj THEN obj[name] ELSE UndefinedProperty

\* if (v): every object is truthy, null and undefined are not.
ToBoolean(v) == v # undefined /\ v # Null

\* ProductModel.findByBarcode(barcode): SELECT * FROM products WHERE barcode = ?
findByBarcode(barcode) ==
    IF barcode \in DOMAIN BarcodeProduct
    THEN [id |-> BarcodeProduct[barcode]]
    ELSE undefined

\* The objects the handlers return.
Success(data) == [success |-> TRUE, data |-> data]

Failure(error) == [success |-> FALSE, error |-> error]

ErrProductNotFound == "Product not found"
ErrProcessingSale == "Error processing sale"

\* ipcMain.handle('pos:find-by-barcode'): what window.api.findProductByBarcode,
\* ipcRenderer.invoke('pos:find-by-barcode', barcode), resolves to.
FindByBarcodeHandler(barcode) ==
    LET product == findByBarcode(barcode)
    IN  IF ~ ToBoolean(product) THEN Failure(ErrProductNotFound) ELSE Success(product)

\* ipcMain.handle('pos:create-sale') given the outcome r of SalesModel.create:
\* what window.api.createSale resolves to.
CreateSaleHandler(r) ==
    IF r.error = ErrNone THEN Success([id |-> NewSaleId]) ELSE Failure(r.error)

\* Whether the promise of ipcRenderer.invoke rejects: both handlers catch every
\* error and return an object, so it resolves.
InvokeRejects(response) == FALSE

\* The function addToCart passes to setCart.
addToCart(prev, product, quantity) ==
    LET id == Get(product, "id")
    IN  IF \E i \in DOMAIN prev : prev[i].productId = id
        THEN [ i \in DOMAIN prev |->
                 IF prev[i].productId = id
                 THEN [prev[i] EXCEPT !.quantity = @ + quantity]
                 ELSE prev[i] ]
        ELSE Append(prev, [productId |-> id, quantity |-> quantity])

RECURSIVE CartQuantity(_)
CartQuantity(rows) ==
    IF rows = << >> THEN 0 ELSE Head(rows).quantity + CartQuantity(Tail(rows))

\* handleBarcodeScan(barcode)
handleBarcodeScan(barcode) ==
    LET product == FindByBarcodeHandler(barcode)
    IN  /\ CartQuantity(cart) < MaxCartQuantity
        /\ IF ToBoolean(product)
           THEN /\ cart' = addToCart(cart, product, 1)
                /\ posAlert' = << >>
           ELSE /\ cart' = cart
                /\ posAlert' = <<ErrProductNotFound>>
        /\ posLast' = [ op |-> "handleBarcodeScan", barcode |-> barcode,
                        found |-> ToBoolean(findByBarcode(barcode)),
                        created |-> FALSE, printed |-> "" ]
        /\ UNCHANGED <<showPayment, lastSale>>

\* <ProductSearch onSelect={addToCart} />: a product of the result list is
\* chosen; the list may show a product whose row is gone since the search.
SelectProduct(p) ==
    /\ CartQuantity(cart) < MaxCartQuantity
    /\ cart' = addToCart(cart, [id |-> p], 1)
    /\ posAlert' = << >>
    /\ posLast' = [ op |-> "addToCart", barcode |-> "", found |-> FALSE,
                    created |-> FALSE, printed |-> "" ]
    /\ UNCHANGED <<showPayment, lastSale>>

\* The keyboard shortcuts F4, Escape and F9.
handleKeyDown(key) ==
    /\ key \in {"F4", "Escape", "F9"}
    /\ showPayment' = IF key = "F4" /\ Len(cart) > 0 THEN TRUE
                      ELSE IF key = "Escape" THEN FALSE
                      ELSE showPayment
    /\ cart' = IF key = "F9" THEN << >> ELSE cart
    /\ posAlert' = << >>
    /\ posLast' = [ op |-> "keydown", barcode |-> "", found |-> FALSE,
                    created |-> FALSE, printed |-> "" ]
    /\ UNCHANGED lastSale

\* handlePayment(paymentData), called by the PaymentModal that showPayment
\* shows; SalesModel.create runs in the main process.
handlePayment(printReceipt) ==
    LET saleItems == [ i \in DOMAIN cart |->
                         [ productId |-> cart[i].productId,
                           quantity |-> cart[i].quantity ] ]
    IN  \E r \in {SaleCreateRun(saleItems)} :
        LET ok == r.error = ErrNone
            sale == CreateSaleHandler(r)
        IN  /\ showPayment
            /\ ok => Len(sales) < MaxSales
            /\ sales' = Transaction(sales, r.sales, ok)
            /\ sale_items' = Transaction(sale_items, r.items, ok)
            /\ products' = Transaction(products, r.prod, ok)
            /\ inventory_transactions' = Transaction(inventory_transactions, r.inv, ok)
            /\ invLast' = [op |-> "create", id |-> NewSaleId, error |-> r.error]
            /\ IF InvokeRejects(sale)
               THEN /\ posAlert' = <<ErrProcessingSale, r.error>>
                    /\ UNCHANGED <<cart, showPayment, lastSale>>
                    /\ posLast' = [ op |-> "handlePayment", barcode |-> "",
                                    found |-> FALSE, created |-> ok, printed |-> "" ]
               ELSE /\ lastSale' = sale
                    /\ showPayment' = FALSE
                    /\ cart' = << >>
                    /\ posAlert' = << >>
                    /\ posLast' = [ op |-> "handlePayment", barcode |-> "",
                                    found |-> FALSE, created |-> ok,
                                    printed |-> IF printReceipt THEN Get(sale, "id")
                                                ELSE "" ]

NextPos ==
    \/ \E barcode \in DOMAIN BarcodeProduct \cup {UnknownBarcode} :
          /\ handleBarcodeScan(barcode)
          /\ UNCHANGED <<ledgerVars, invVars, apiVars, bridgeVars, migVars, arVars, updVars, modalVars>>
    \/ \E p \in ProductIds \cup {UnknownProduct} :
          /\ SelectProduct(p)
          /\ UNCHANGED <<ledgerVars, invVars, apiVars, bridgeVars, migVars, arVars, updVars, modalVars>>
    \/ \E key \in {"F4", "Escape", "F9"} :
          /\ handleKeyDown(key)
          /\ UNCHANGED <<ledgerVars, invVars, apiVars, bridgeVars, migVars, arVars, updVars, modalVars>>
    \/ \E printReceipt \in BOOLEAN :
          /\ handlePayment(printReceipt)
          /\ UNCHANGED <<ledgerVars, apiVars, bridgeVars, migVars, arVars, updVars, modalVars>>

----------------------------------------------------------------------------
(* Auto-update: AppUpdater behind window.api *)

\* The channels of the handlers that setupIpcHandlers registers.
UpdaterInvokeChannels ==
    {"system:check-updates", "system:download-update", "system:install-update"}

\* The channel sendStatusToWindow sends on.
StatusChannel == "update:status"

\* The channels a renderer that follows the update may listen on: the one the
\* updater sends on and the update channels of validChannels.on.
UpdaterEventChannels ==
    {StatusChannel, "update:available", "update:downloaded", "update:progress"}

\* What autoUpdater.checkForUpdates() can find. autoDownload is false, so an
\* update that was found stays available until it is downloaded, and one that
\* was downloaded stays downloaded.
CheckOutcomes(state) ==
    IF state \in {"update-available", "update-downloaded"}
    THEN {state}
    ELSE {"update-available", "update-not-available", "error"}

\* The handler of channel in the main process, on the state of autoUpdater:
\* the state it leaves and the statuses autoUpdater emits while it runs.
UpdaterHandler(channel, state, outcome) ==
    CASE channel = "system:check-updates" ->
           [ state |-> outcome,
             emitted |-> {"checking-for-update"} \cup
                         (IF outcome = "update-downloaded" THEN {"update-available"}
                          ELSE {outcome}) ]
      [] channel = "system:download-update" ->
           IF state = "update-available"
           THEN [ state |-> "update-downloaded",
                  emitted |-> {"download-progress", "update-downloaded"} ]
           ELSE [ state |-> state, emitted |-> {} ]
      [] channel = "system:install-update" ->
           [ state |-> IF state = "update-downloaded" THEN "installed" ELSE state,
             emitted |-> {} ]

\* sendStatusToWindow(status) for each emitted status: sent when a window is
\* focused.
sendStatusToWindow(emitted, focused) ==
    IF focused THEN {[channel |-> StatusChannel, status |-> st] : st \in emitted}
    ELSE {}

\* The events that reach a callback of the renderer: those on a channel that
\* ipcRenderer has a listener for.
Delivered(events) ==
    { e.status : e \in { ev \in events :
                           \E l \in ipcListeners : l.channel = ev.channel } }

\* window.api.invoke(channel) by the renderer, and the handler it reaches.
\* ipcInvoked, the log of the bridge, is not kept here.
UpdaterInvoke(channel, outcome, focused) ==
    /\ updState # "installed"
    /\ outcome \in CheckOutcomes(updState)
    /\ IF includes(validChannels.invoke, channel)
       THEN LET h == UpdaterHandler(channel, updState, outcome)
                events == sendStatusToWindow(h.emitted, focused)
            IN  /\ updState' = h.state
                /\ windowEvents' = windowEvents \cup events
                /\ rendererStatus' = rendererStatus \cup Delivered(events)
                /\ bridgeLast' = [ op |-> "invoke", channel |-> channel,
                                   threw |-> FALSE, message |-> << >> ]
       ELSE /\ UNCHANGED <<updState, windowEvents, rendererStatus>>
            /\ bridgeLast' = [ op |-> "invoke", channel |-> channel,
                               threw |-> TRUE, message |-> InvalidChannel(channel) ]
    /\ UNCHANGED <<ipcInvoked, ipcListeners, nextSubscription>>

\* window.api.on(channel, callback) by the renderer.
UpdaterSubscribe(channel) ==
    /\ updState # "installed"
    /\ ApiOn(channel)
    /\ UNCHANGED <<updState, windowEvents, rendererStatus>>

\* The renderer asks for the download.
DownloadRequested ==
    \E outcome \in CheckOutcomes(updState), focused \in BOOLEAN :
        /\ UpdaterInvoke("system:download-update", outcome, focused)
        /\ UNCHANGED <<ledgerVars, invVars, apiVars, migVars, arVars, posVars, modalVars>>

NextUpdater ==
    \/ \E channel \in UpdaterInvokeChannels,
          outcome \in {"update-available", "update-not-available", "error",
                       "update-downloaded"},
          focused \in BOOLEAN :
          /\ UpdaterInvoke(channel, outcome, focused)
          /\ UNCHANGED <<ledgerVars, invVars, apiVars, migVars, arVars, posVars, modalVars>>
    \/ \E channel \in UpdaterEventChannels :
          /\ UpdaterSubscribe(channel)
          /\ UNCHANGED <<ledgerVars, invVars, apiVars, migVars, arVars, posVars, modalVars>>

----------------------------------------------------------------------------
(* AccessibleModal: focus management *)

\* The elements that sequential focus navigation visits, in order: the
\* container has tabindex -1 and is skipped, the modal's children are in the
\* document only while the modal is rendered.
RECURSIVE Children(_)
Children(n) == IF n = 0 THEN << >> ELSE Append(Children(n - 1), Child(n))

TabOrder(open, n) ==
    <<PageBefore>> \o (IF open THEN Children(n) ELSE << >>) \o <<PageAfter>>

\* The place of an element among those of TabOrder: the container, which is not
\* one of them, lies between the page before it and its first child.
Place(order, el) ==
    IF el = Container THEN 1
    ELSE CHOOSE i \in DOMAIN order : order[i] = el

\* What the browser does with Tab or Shift+Tab when no handler prevents it:
\* the focus moves to the next or the previous element of the tab order,
\* starting from the focused element; at either end of the document it leaves
\* the document, and the model keeps it on the page's outermost element.
DefaultTab(order, el, shiftKey) ==
    LET at == Place(order, el)
        next == IF el = Container THEN (IF shiftKey THEN at ELSE at + 1)
                ELSE (IF shiftKey THEN at - 1 ELSE at + 1)
    IN  order[Max(1, Min(Len(order), next))]

\* handleKeyDown for Tab with the focus on el: the element the handler focuses
\* after e.preventDefault(), or NoElement when it leaves the key to the browser.
TrapTarget(n, el, shiftKey) ==
    IF n = 0 THEN NoElement
    ELSE IF shiftKey /\ el = Child(1) THEN Child(n)
    ELSE IF ~ shiftKey /\ el = Child(n) THEN Child(1)
    ELSE NoElement

\* The parent renders the modal with isOpen = true and n focusable children;
\* the effect stores the focused element and focuses the container.
OpenModal(n) ==
    /\ ~ isOpen
    /\ isOpen' = TRUE
    /\ focusableCount' = n
    /\ previousActiveElement' = activeElement
    /\ activeElement' = Container
    /\ modalLast' = [key |-> "none", shiftKey |-> FALSE, defaultPrevented |-> FALSE]

\* onClose(): Escape pressed inside the modal or a click on the backdrop; the
\* parent sets isOpen to false and the effect gives the focus back.
CloseModal(key) ==
    /\ isOpen
    /\ key = "Escape" => activeElement.where = "modal"
    /\ isOpen' = FALSE
    /\ activeElement' = IF previousActiveElement = NoElement THEN activeElement
                        ELSE previousActiveElement
    /\ modalLast' = [key |-> key, shiftKey |-> FALSE, defaultPrevented |-> FALSE]
    /\ UNCHANGED <<focusableCount, previousActiveElement>>

\* Tab or Shift+Tab is pressed. With the focus inside the modal the keydown
\* event reaches handleKeyDown; otherwise only the browser handles it.
PressTab(shiftKey) ==
    LET inside == isOpen /\ activeElement.where = "modal"
        target == IF inside THEN TrapTarget(focusableCount, activeElement, shiftKey)
                  ELSE NoElement
    IN  /\ activeElement' =
              IF target # NoElement THEN target
              ELSE DefaultTab(TabOrder(isOpen, focusableCount), activeElement, shiftKey)
        /\ modalLast' = [ key |-> "Tab", shiftKey |-> shiftKey,
                          defaultPrevented |-> target # NoElement ]
        /\ UNCHANGED <<isOpen, focusableCount, previousActiveElement>>

NextModal ==
    \/ \E n \in 0..MaxFocusable :
          /\ OpenModal(n)
          /\ UNCHANGED <<ledgerVars, invVars, apiVars, bridgeVars, migVars, arVars, posVars, updVars>>
    \/ \E key \in {"Escape", "click"} :
          /\ CloseModal(key)
          /\ UNCHANGED <<ledgerVars, invVars, apiVars, bridgeVars, migVars, arVars, posVars, updVars>>
    \/ \E shiftKey \in BOOLEAN :
          /\ PressTab(shiftKey)
          /\ UNCHANGED <<ledgerVars, invVars, apiVars, bridgeVars, migVars, arVars, posVars, updVars>>

----------------------------------------------------------------------------
(* Specifications *)

NextLedger ==
    \/ \E lines \in InputLines : JournalEntryCreate(lines) /\ UNCHANGED <<invVars, apiVars, bridgeVars, migVars, appVars>>
    \/ \E id \in 1..(MaxEntries + 1) : JournalEntryPost(id) /\ UNCHANGED <<invVars, apiVars, bridgeVars, migVars, appVars>>

\* The state after construction: the schema's defaults and the seeded rows.
Init == InitLedger /\ InitInventory /\ InitApi /\ InitBridge /\ InitMigrate /\ InitApp

SpecLedger == Init /\ [][NextLedger]_vars

\* data.lines of the entries created around a new year: a sale for cash, an
\* expense paid in cash, and two debits with no credit.
NumberingLines ==
    { << [accountId |-> "1110", debit |-> 1, credit |-> 0],
         [accountId |-> "4100", debit |-> 0, credit |-> 1] >>,
      << [accountId |-> "6200", debit |-> 1, credit |-> 0],
         [accountId |-> "1110", debit |-> 0, credit |-> 1] >>,
      << [accountId |-> "1110", debit |-> 1, credit |-> 0],
         [accountId |-> "6200", debit |-> 1, credit |-> 0] >> }

\* Entries are created and posted while the year changes.
NextNumbering ==
    \/ \E lines \in NumberingLines :
          JournalEntryCreate(lines) /\ UNCHANGED <<invVars, apiVars, bridgeVars, migVars, appVars>>
    \/ \E id \in 1..(MaxEntries + 1) :
          JournalEntryPost(id) /\ UNCHANGED <<invVars, apiVars, bridgeVars, migVars, appVars>>
    \/ \E zone \in {"utc", "local"} :
          NewYear(zone) /\ UNCHANGED <<invVars, apiVars, bridgeVars, migVars, appVars>>

SpecNumbering == Init /\ [][NextNumbering]_vars

SpecPos == Init /\ [][NextPos]_vars

\* The renderer that wants the update keeps asking for the download.
SpecUpdater == Init /\ [][NextUpdater]_vars /\ WF_vars(DownloadRequested)

SpecModal == Init /\ [][NextModal]_vars

SpecInventory == Init /\ [][NextInventory]_vars

\* The item router behind either documented verify_api_key.
InitItems ==
    /\ InitLedger /\ InitInventory /\ InitBridge /\ InitMigrate /\ InitApp
    /\ items = << >> /\ nextId = 1 /\ apiLast = NoResponse /\ walk = NoWalk
    /\ authVariant \in {"deps", "quick-reference"}

NextItems ==
    \/ \E h \in RequestHeaders, name \in ItemNames :
          create_item(h, name) /\ UNCHANGED <<ledgerVars, invVars, bridgeVars, migVars, appVars>>
    \/ \E h \in RequestHeaders, id \in 1..(MaxItems + 1) :
          get_item(h, id) /\ UNCHANGED <<ledgerVars, invVars, bridgeVars, migVars, appVars>>
    \/ \E h \in RequestHeaders, id \in 1..(MaxItems + 1), name \in ItemNames \cup {Unset} :
          update_item(h, id, name) /\ UNCHANGED <<ledgerVars, invVars, bridgeVars, migVars, appVars>>
    \/ \E h \in RequestHeaders, id \in 1..(MaxItems + 1) :
          delete_item(h, id) /\ UNCHANGED <<ledgerVars, invVars, bridgeVars, migVars, appVars>>
    \/ \E h \in RequestHeaders, page \in 1..2, page_size \in 1..2 :
          list_items(h, page, page_size) /\ UNCHANGED <<ledgerVars, invVars, bridgeVars, migVars, appVars>>

SpecItems == InitItems /\ [][NextItems]_vars

\* The paginated listing read over a table of n rows, n = 0..MaxStored.
InitPaging ==
    /\ InitLedger /\ InitInventory /\ InitBridge /\ InitMigrate /\ InitApp
    /\ \E n \in 0..MaxStored :
          /\ items = [ i \in 1..n |-> [name |-> "a"] ]
          /\ nextId = n + 1
    /\ authVariant = "deps" /\ apiLast = NoResponse /\ walk = NoWalk

\* One read of the listing per run, with a configured key.
NextPaging ==
    \E page \in 0..MaxPage, page_size \in 0..(PageSizeMax + 1) :
        /\ apiLast = NoResponse
        /\ list_items(HeaderWith("key-a"), page, page_size)
        /\ UNCHANGED <<ledgerVars, invVars, bridgeVars, migVars, appVars>>

SpecPaging == InitPaging /\ [][NextPaging]_vars

\* The ids a walked table is drawn from: two and three digits long.
WalkIdPool == {98 + i : i \in 1..MaxWalkItems}

\* The limits a walk is run with: small ones, the largest accepted, and one more.
WalkLimits == (-1..MaxWalkLimit) \cup {LimitMax, LimitMax + 1}

\* A client walks the cursor-based listing of a table with a fixed limit.
InitCursor ==
    /\ InitLedger /\ InitInventory /\ InitBridge /\ InitMigrate /\ InitApp
    /\ \E stored \in SUBSET WalkIdPool :
          /\ items = [ i \in stored |-> [name |-> "a"] ]
          /\ nextId = 99 + MaxWalkItems
    /\ authVariant = "deps" /\ apiLast = NoResponse
    /\ \E limit \in WalkLimits : walk = [ NoWalk EXCEPT !.limit = limit ]

NextCursor == WalkRequest /\ UNCHANGED <<ledgerVars, invVars, bridgeVars, migVars, appVars>>

\* The client keeps asking while it has a request to send.
SpecCursor == InitCursor /\ [][NextCursor]_vars /\ WF_vars(NextCursor)

SpecBridge == Init /\ [][NextBridge]_vars

SpecMigrate == Init /\ [][NextMigrate]_vars

----------------------------------------------------------------------------
(* Ledger: properties *)

StoredLines(id) ==
    SelectSeq(journal_entry_lines, LAMBDA l : l.journal_entry_id = id)

\* Every journal_entries row has lines whose debits and credits differ by at
\* most 0.01, and every journal_entry_lines row belongs to a journal_entries row.
StoredEntriesBalanced ==
    /\ \A e \in Range(journal_entries) :
          Abs(TotalDebit(StoredLines(e.id)) - TotalCredit(StoredLines(e.id))) <= Tolerance
    /\ \A l \in Range(journal_entry_lines) :
          \E e \in Range(journal_entries) : e.id = l.journal_entry_id

\* C1: JournalEntryModel.create stores an entry only when its debits and
\* credits differ by at most 0.01; a create whose lines differ by more throws
\* 'Debits and credits must be equal'; a create that throws leaves both tables
\* as they were; so every stored entry is balanced after every step.
C1_CreateStoresOnlyBalanced ==
    [][ /\ StoredEntriesBalanced'
        /\ (ledgerLast'.op = "create" /\ clock' = clock) =>
              /\ (Abs(ledgerLast'.diff) > Tolerance) <=> (ledgerLast'.error = ErrUnbalanced)
              /\ ledgerLast'.error # ErrNone =>
                    UNCHANGED <<journal_entries, journal_entry_lines>>
              /\ ledgerLast'.error = ErrNone =>
                    /\ Len(journal_entries') = Len(journal_entries) + 1
                    /\ Abs(ledgerLast'.diff) <= Tolerance ]_vars

\* C1 witness: an entry is stored and a later create was rejected as unbalanced.
C1_Witness ==
    /\ journal_entries # << >>
    /\ journal_entry_lines # << >>
    /\ ledgerLast.op = "create"
    /\ ledgerLast.error = ErrUnbalanced

\* C2: after any sequence of create and post calls the debit_balance column of
\* the trial balance sums to the same amount as its credit_balance column.
C2_TrialBalanceBalances ==
    SumOf(getTrialBalance, "debit_balance") = SumOf(getTrialBalance, "credit_balance")

\* Every stored entry has debits equal to credits, to the cent.
StoredEntriesExact ==
    \A e \in Range(journal_entries) :
        TotalDebit(StoredLines(e.id)) = TotalCredit(StoredLines(e.id))

\* C3: the balance sheet satisfies Assets = Liabilities + Equity after any
\* sequence of created and posted journal entries: totalAssets equals
\* totalLiabilitiesAndEquity. Stated for ledgers whose entries balance to the
\* cent, where the tolerance of create plays no part.
C3_BalanceSheetEquation ==
    StoredEntriesExact =>
        getBalanceSheet.totalAssets = getBalanceSheet.totalLiabilitiesAndEquity

----------------------------------------------------------------------------
(* Inventory: properties *)

RECURSIVE SumQuantity(_, _)
\* The sum of quantity over the rows of one product.
SumQuantity(rows, p) ==
    IF rows = << >> THEN 0
    ELSE (IF Head(rows).product_id = p THEN Head(rows).quantity ELSE 0)
            + SumQuantity(Tail(rows), p)

\* Each product's current_stock is its initial stock (the schema default 0)
\* plus the quantities of its inventory_transactions rows, and every such row
\* names a stored product.
StockMatchesTransactions ==
    /\ \A p \in DOMAIN products :
          products[p].current_stock = SumQuantity(inventory_transactions, p)
    /\ \A r \in Range(inventory_transactions) : r.product_id \in DOMAIN products

\* C4: a successful SalesModel.create lowers the current_stock of every product
\* by the quantity sold of it; a call that throws changes no table; and after
\* any sequence of updateStock, create and voidSale calls each product's
\* current_stock equals its initial stock plus the sum of quantity over its
\* inventory_transactions rows.
C4_StockFollowsTransactions ==
    [][ /\ StockMatchesTransactions'
        /\ invLast'.error # ErrNone =>
              UNCHANGED <<products, inventory_transactions, sales, sale_items>>
        /\ (invLast'.op = "create" /\ invLast'.error = ErrNone) =>
              /\ Len(sales') = Len(sales) + 1
              /\ \A p \in DOMAIN products :
                    products'[p].current_stock =
                        products[p].current_stock
                          - SumQuantity(SelectSeq(sale_items',
                                            LAMBDA i : i.sale_id = Len(sales')), p) ]_vars

\* C4 witness: a sale is stored, its stock is taken, and a later create that
\* named an unknown product was undone.
C4_Witness ==
    /\ \E i \in DOMAIN sales : sales[i].status = "completed"
    /\ \E p \in DOMAIN products : products[p].current_stock < 0
    /\ \E r \in Range(inventory_transactions) : r.transaction_type = "adjustment"
    /\ invLast.op = "create"
    /\ invLast.error = ErrTypeError

----------------------------------------------------------------------------
(* FastAPI: properties *)

\* C5: a request to an endpoint behind verify_api_key is answered 401 when the
\* X-API-Key header is absent and 403 when it carries a key that is not
\* configured; the endpoint body runs only for a configured key.
C5_ApiKeyStatus ==
    apiLast.op # "none" =>
        /\ ~ apiLast.header.present => apiLast.status = "401"
        /\ (apiLast.header.present /\ apiLast.header.key \notin api_keys_set) =>
              apiLast.status = "403"
        /\ apiLast.ran =>
              (apiLast.header.present /\ apiLast.header.key \in api_keys_set)

\* C6: for total >= 0, page >= 1 and 1 <= page_size <= 100 list_items answers
\* with total = the number of stored items, pages = ceil(total / page_size) and
\* min(page_size, max(0, total - (page - 1) * page_size)) items.
C6_PaginationCounts ==
    apiLast.op = "list" =>
        /\ (apiLast.status = "200") <=>
              (apiLast.page >= 1 /\ apiLast.page_size >= 1
                 /\ apiLast.page_size <= PageSizeMax)
        /\ apiLast.status = "200" =>
              /\ apiLast.total = Cardinality(DOMAIN items)
              /\ apiLast.pages * apiLast.page_size >= apiLast.total
              /\ (apiLast.pages - 1) * apiLast.page_size < apiLast.total
              /\ Len(apiLast.data) =
                    Min(apiLast.page_size,
                        Max(0, apiLast.total - (apiLast.page - 1) * apiLast.page_size))

\* C6 witness: 25 stored items read with page 1 and page_size 10 give 10 items,
\* total 25 and pages 3.
C6_Witness ==
    /\ Cardinality(DOMAIN items) = 25
    /\ apiLast.op = "list" /\ apiLast.status = "200"
    /\ apiLast.page = 1 /\ apiLast.page_size = 10
    /\ Len(apiLast.data) = 10 /\ apiLast.total = 25 /\ apiLast.pages = 3

\* C7: get_item, update_item and delete_item answer 404 'Item not found' for an
\* id that is not stored and leave the items as they were; delete_item on a
\* stored id answers 204 and removes that item and no other, so that get_item
\* answers 404 for an id exactly when it is not stored.
C7_NotFoundAndDelete ==
    [][ (apiLast'.ran /\ apiLast'.op \in {"get", "update", "delete"}) =>
          /\ apiLast'.id \notin DOMAIN items =>
                /\ apiLast'.status = "404"
                /\ apiLast'.detail = "Item not found"
                /\ items' = items
          /\ apiLast'.id \in DOMAIN items => apiLast'.status # "404"
          /\ (apiLast'.op = "delete" /\ apiLast'.id \in DOMAIN items) =>
                /\ apiLast'.status = "204"
                /\ DOMAIN items' = DOMAIN items \ {apiLast'.id}
                /\ \A i \in DOMAIN items' : items'[i] = items[i]
          /\ apiLast'.op = "get" => items' = items ]_vars

\* C7 witness: an item was created and deleted, and get_item on its id is
\* answered 404 while another item is still stored.
C7_Witness ==
    /\ apiLast.op = "get" /\ apiLast.ran /\ apiLast.status = "404"
    /\ apiLast.id < nextId
    /\ items # << >>

----------------------------------------------------------------------------
(* Preload bridge, migration runner and cursor walk: properties *)

\* C8: window.api.invoke(channel) forwards to ipcRenderer.invoke exactly when the
\* channel is in validChannels.invoke, and window.api.on(channel, cb) subscribes
\* exactly when the channel is in validChannels.on; for any other channel the
\* call throws 'Invalid channel' and nothing is sent or subscribed.
C8_BridgeEnforcesWhitelist ==
    [][ /\ bridgeLast'.op = "invoke" =>
              IF bridgeLast'.channel \in validChannels.invoke
              THEN /\ ~ bridgeLast'.threw
                   /\ ipcInvoked' = Append(ipcInvoked, bridgeLast'.channel)
                   /\ ipcListeners' = ipcListeners
              ELSE /\ bridgeLast'.threw
                   /\ bridgeLast'.message[1] = "Invalid channel: "
                   /\ ipcInvoked' = ipcInvoked
                   /\ ipcListeners' = ipcListeners
        /\ bridgeLast'.op = "on" =>
              IF bridgeLast'.channel \in validChannels.on
              THEN /\ ~ bridgeLast'.threw
                   /\ ipcInvoked' = ipcInvoked
                   /\ \E l \in ipcListeners' \ ipcListeners :
                         /\ l.channel = bridgeLast'.channel
                         /\ ipcListeners' = ipcListeners \cup {l}
              ELSE /\ bridgeLast'.threw
                   /\ bridgeLast'.message[1] = "Invalid channel: "
                   /\ ipcInvoked' = ipcInvoked
                   /\ ipcListeners' = ipcListeners
        /\ \A i \in DOMAIN ipcInvoked' : ipcInvoked'[i] \in validChannels.invoke
        /\ \A l \in ipcListeners' : l.channel \in validChannels.on ]_vars

\* C8 witness: after a call was forwarded and a listener subscribed, invoke on
\* the updater's 'system:download-update' threw.
C8_Witness ==
    /\ bridgeLast.op = "invoke" /\ bridgeLast.threw
    /\ bridgeLast.channel = "system:download-update"
    /\ ipcInvoked # << >> /\ ipcListeners # {}

\* The number of times x occurs in seq.
CountIn(seq, x) == Cardinality({i \in DOMAIN seq : seq[i] = x})

\* C9: a run of runMigrations executes the pending .sql files in ascending
\* file-name order without skipping one, stopping at a file whose SQL fails;
\* a file named in the migrations table is not executed again, a failed file is
\* not recorded and leaves no effect, and over all runs each file takes effect
\* at most once, exactly when it is recorded.
C9_MigrationsAtMostOnce ==
    [][ migRun'.runs = migRun.runs + 1 =>
          LET ran == migRun'.ran
              failed == migRun'.failed
              pending == { f \in migrationsDir :
                             endsWith(f, DotSql) /\ f \notin Range(migrations) }
          IN  /\ \A i, j \in DOMAIN ran : i < j => NameLess(ran[i], ran[j])
              /\ Range(ran) \subseteq pending
              /\ \A f \in pending \ Range(ran) :
                    failed # << >> /\ NameLess(failed[1], f)
              /\ failed # << >> =>
                    /\ failed[1] = ran[Len(ran)]
                    /\ failed[1] \notin Range(migrations')
                    /\ failed[1] \notin Range(schemaEffects')
              /\ Range(migrations') = Range(migrations) \cup (Range(ran) \ Range(failed))
              /\ \A f \in FilePool :
                    /\ CountIn(schemaEffects', f) <= 1
                    /\ CountIn(migrations', f) = CountIn(schemaEffects', f) ]_vars

\* C9 witness: a run ran 10.sql before 2.sql and stopped at 2.sql, which an
\* earlier run had failed on too; 1.sql, recorded earlier, was not run again.
C9_Witness ==
    /\ migRun.runs = MaxRuns
    /\ migRun.ran = << <<"1", "0", ".", "s", "q", "l">>, <<"2", ".", "s", "q", "l">> >>
    /\ migRun.failed = << <<"2", ".", "s", "q", "l">> >>
    /\ migrations = << <<"1", ".", "s", "q", "l">>, <<"1", "0", ".", "s", "q", "l">> >>
    /\ schemaEffects = migrations

\* The walk has ended having seen every stored item once, in ascending id order.
WalkComplete ==
    /\ walk.status = "done"
    /\ walk.seen = SortedIds(DOMAIN items)
    /\ ~ walk.has_more
    /\ ~ walk.cursor.some

\* C10: for every limit the endpoint accepts (limit <= 100) a walk that starts
\* with no cursor and follows next_cursor while has_more is true ends, with
\* has_more false and next_cursor null, having returned every stored item
\* exactly once in ascending id order.
C10_WalkVisitsEverythingOnce ==
    <>(walk.limit > LimitMax \/ WalkComplete)

----------------------------------------------------------------------------
(* Ledger and sales: posting and voiding *)

RECURSIVE SignedSum(_, _, _)
\* Over the lines that name account a: debit - credit when debitSide, else
\* credit - debit.
SignedSum(lines, a, debitSide) ==
    IF lines = << >> THEN 0
    ELSE (IF Head(lines).account_id # a THEN 0
          ELSE IF debitSide THEN Head(lines).debit - Head(lines).credit
          ELSE Head(lines).credit - Head(lines).debit)
            + SignedSum(Tail(lines), a, debitSide)

\* C12: a successful post adds to every account the debit - credit (asset,
\* expense) or credit - debit (liability, equity, income) of the entry's lines
\* on it and marks that entry, and no other, posted; posting a posted entry
\* throws 'Entry already posted' and posting an unknown id throws 'Journal entry
\* not found', both changing nothing; balances change in no other way and a
\* posted entry stays posted, so each entry changes the balances at most once.
C12_PostOnce ==
    [][ /\ (ledgerLast'.op = "post" /\ clock' = clock) =>
              LET id == ledgerLast'.id
                  stored == \E e \in Range(journal_entries) : e.id = id
                  posted == \E e \in Range(journal_entries) : e.id = id /\ e.is_posted = 1
              IN  /\ ledgerLast'.error = ErrNotFound <=> ~ stored
                  /\ ledgerLast'.error = ErrAlreadyPosted <=> posted
                  /\ ledgerLast'.error # ErrNone =>
                        UNCHANGED <<accounts, journal_entries, journal_entry_lines>>
                  /\ ledgerLast'.error = ErrNone =>
                        /\ \A a \in DOMAIN accounts :
                              accounts'[a].current_balance =
                                accounts[a].current_balance
                                  + SignedSum(StoredLines(id), a,
                                      accounts[a].account_type \in {"asset", "expense"})
                        /\ \A i \in DOMAIN journal_entries :
                              journal_entries'[i].is_posted =
                                IF journal_entries[i].id = id THEN 1
                                ELSE journal_entries[i].is_posted
        /\ (ledgerLast'.op # "post" \/ clock' # clock) => accounts' = accounts
        /\ \A i \in DOMAIN journal_entries :
              journal_entries[i].is_posted = 1 =>
                  (i \in DOMAIN journal_entries' /\ journal_entries'[i].is_posted = 1) ]_vars

\* C12 witness: an entry that moved a liability account was posted, and a second
\* post of it was refused.
C12_Witness ==
    /\ ledgerLast.op = "post"
    /\ ledgerLast.error = ErrAlreadyPosted
    /\ accounts["2100"].current_balance = 1
    /\ accounts["1110"].current_balance = 1

\* The quantity of product p in the items of the sales that are not void.
SoldQuantity(p) ==
    SumQuantity(SelectSeq(sale_items,
        LAMBDA i : \E s \in Range(sales) : s.id = i.sale_id /\ s.status # "void"), p)

\* The quantity of product p moved by direct updateStock calls.
AdjustedQuantity(p) ==
    SumQuantity(SelectSeq(inventory_transactions,
        LAMBDA r : r.transaction_type \notin {"sale", "return"}), p)

\* C15: the first voidSale of a sale adds back each item's quantity and sets
\* the status 'void'; a voidSale of a missing or void sale throws 'Sale not
\* found or already void' and changes no stock; so a sale that was voided, any
\* number of times, has left every product's current_stock where it was
\* before the sale: the stock is what direct adjustments and the sales that are
\* not void make it.
C15_VoidRestoresOnce ==
    [][ /\ invLast'.op = "voidSale" =>
              LET id == invLast'.id
                  voidable == \E s \in Range(sales) : s.id = id /\ s.status # "void"
              IN  /\ invLast'.error = ErrSaleNotFound <=> ~ voidable
                  /\ ~ voidable =>
                        UNCHANGED <<products, inventory_transactions, sales, sale_items>>
                  /\ voidable =>
                        /\ invLast'.error = ErrNone
                        /\ \A s \in Range(sales') : s.id = id => s.status = "void"
                        /\ \A p \in DOMAIN products :
                              products'[p].current_stock =
                                products[p].current_stock
                                  + SumQuantity(SelectSeq(sale_items,
                                        LAMBDA i : i.sale_id = id), p)
        /\ \A p \in DOMAIN products :
              products'[p].current_stock = AdjustedQuantity(p)' - SoldQuantity(p)' ]_vars

\* C15 witness: a sale of two units of a product was voided, a second voidSale
\* of it was refused, and the product's stock is back at zero.
C15_Witness ==
    /\ invLast.op = "voidSale"
    /\ invLast.error = ErrSaleNotFound
    /\ \E s \in Range(sales) : s.id = invLast.id /\ s.status = "void"
    /\ \E i \in Range(sale_items) : i.sale_id = invLast.id /\ i.quantity = 2
    /\ \A p \in DOMAIN products : products[p].current_stock = 0

\* C16: across any sequence of successful and rejected create calls no two
\* stored journal entries share an entry_number, and no create fails on the
\* UNIQUE constraint of journal_entries.entry_number: generateEntryNumber never
\* hands out a number that is taken.
C16_EntryNumbersUnique ==
    /\ \A i, j \in DOMAIN journal_entries :
          i # j => journal_entries[i].entry_number # journal_entries[j].entry_number
    /\ ledgerLast.error # ErrUnique

----------------------------------------------------------------------------
(* Accounts receivable: properties *)

\* C13: InvoiceModel.create is all-or-nothing: a create whose totalAmount
\* differs from subtotal - discountAmount + taxAmount by more than 0.01 is
\* rejected as unbalanced, and a create that throws leaves no invoices row, no
\* journal entry and the customer's current_balance as it was; a create that
\* returns stores the invoice and raises the balance by totalAmount; so every
\* stored invoice has a stored journal entry with reference_type 'invoice' and
\* reference_id equal to the invoice id.
C13_InvoiceAllOrNothing ==
    [][ /\ arLast'.op = "create" =>
              /\ (arLast'.error = ErrUnbalanced) =>
                    Abs(arLast'.diff) > Tolerance
              /\ (Abs(arLast'.diff) > Tolerance) => arLast'.error # ErrNone
              /\ arLast'.error # ErrNone =>
                    UNCHANGED <<invoices, customers, payments,
                                journal_entries, journal_entry_lines>>
              /\ arLast'.error = ErrNone =>
                    /\ Len(invoices') = Len(invoices) + 1
                    /\ invoices'[Len(invoices')].id = arLast'.id
                    /\ \A c \in DOMAIN customers :
                          customers'[c].current_balance =
                            customers[c].current_balance
                              + (IF c = invoices'[Len(invoices')].customer_id
                                 THEN arLast'.amount ELSE 0)
        /\ \A i \in Range(invoices') :
              \E e \in Range(journal_entries') :
                  e.reference_type = "invoice" /\ e.reference_id = i.id ]_vars

\* C13 witness: an invoice is stored with its journal entry, and a later create
\* was rejected as unbalanced.
C13_Witness ==
    /\ invoices # << >>
    /\ arLast.op = "create"
    /\ arLast.error = ErrUnbalanced
    /\ customers["c1"].current_balance > 0

\* C14: after any sequence of recordPayment calls with any payment amounts,
\* every invoice has 0 <= amount_paid <= total_amount, and an invoice that
\* received a payment has status 'paid' exactly when amount_paid has reached
\* total_amount and 'partial' otherwise; a payment larger than the remaining
\* balance is rejected with 'Payment amount exceeds remaining balance'.
C14_PaymentsWithinTotal ==
    /\ \A i \in Range(invoices) :
          /\ 0 <= i.amount_paid
          /\ i.amount_paid <= i.total_amount
          /\ (\E q \in Range(payments) : q.invoice_id = i.id) =>
                i.status = (IF i.amount_paid = i.total_amount THEN "paid" ELSE "partial")
    /\ (arLast.op = "recordPayment" /\ arLast.error = ErrExceeds) =>
          \E i \in Range(invoices) :
              i.id = arLast.id /\ arLast.amount > i.total_amount - i.amount_paid

\* C17: handleBarcodeScan adds the scanned product to the cart when the lookup
\* served by 'pos:find-by-barcode' finds a product (the cart then holds one more
\* unit of that product); when no product has the barcode it shows
\* 'Product not found' and leaves the cart unchanged.
C17_ScanAddsOrReports ==
    [][ posLast'.op = "handleBarcodeScan" =>
          IF posLast'.found
          THEN LET p == BarcodeProduct[posLast'.barcode]
                   Units(rows) == CartQuantity(SelectSeq(rows,
                                        LAMBDA item : item.productId = p))
               IN  /\ Units(cart') = Units(cart) + 1
                   /\ CartQuantity(cart') = CartQuantity(cart) + 1
          ELSE /\ posAlert' = <<ErrProductNotFound>>
               /\ cart' = cart ]_vars

\* C18: handlePayment empties the cart and closes the payment modal only when
\* 'pos:create-sale' created the sale; when the creation fails the cart keeps
\* its items and a message starting with 'Error processing sale' is shown.
C18_CartKeptWhenSaleFails ==
    [][ posLast'.op = "handlePayment" =>
          IF posLast'.created
          THEN cart' = << >> /\ ~ showPayment'
          ELSE /\ cart' = cart
               /\ posAlert' # << >>
               /\ Head(posAlert') = ErrProcessingSale ]_vars

\* C19: the renderer can drive the update to completion through window.api:
\* every status event the AppUpdater sends to the window is on a channel that
\* window.api.on accepts, and once an update is available the download the
\* renderer asks for through window.api.invoke brings it to 'update-downloaded'.
C19_UpdateCompletes ==
    /\ [](\A e \in windowEvents : e.channel \in validChannels.on)
    /\ (updState = "update-available") ~> (updState = "update-downloaded")

\* C11: dialogs trap focus: while AccessibleModal is open, no Tab or Shift+Tab
\* pressed with the focus on an element of the modal (the container that is
\* focused on opening included) moves the focus outside the modal; Tab on the
\* last focusable element goes to the first and Shift+Tab on the first goes to
\* the last.
C11_ModalTrapsFocus ==
    [][ (isOpen /\ modalLast'.key = "Tab" /\ activeElement.where = "modal") =>
          /\ activeElement'.where = "modal"
          /\ (focusableCount > 0 /\ ~ modalLast'.shiftKey
                /\ activeElement = Child(focusableCount))
               => activeElement' = Child(1)
          /\ (focusableCount > 0 /\ modalLast'.shiftKey /\ activeElement = Child(1))
               => activeElement' = Child(focusableCount) ]_vars

====
